---- MODULE Spec2Model ----
(***************************************************************************)
(* Model of the Illustria weather API (src/app.py): the snapshot           *)
(* provisioning path (ensure_db_present, connect) run by concurrent        *)
(* requests over one canonical file, and the pure helpers of the query     *)
(* layer.                                                                  *)
(*                                                                         *)
(* A step of a request is one file-system or network operation of the      *)
(* code, so that requests interleave where the code can interleave.        *)
(* Environment assumption: the temporary directory and DB_PATH are on one  *)
(* file system, so Path.replace (os.replace) is an atomic rename.          *)
(***************************************************************************)
EXTENDS Integers, Sequences, FiniteSets, TLC

\* ------------------------------------------------------------------ bounds
NumProcs == 2
MaxRequests == 2
NumChunks == 2

\* ------------------------------------------------------- program constants
ChunkSize == 1048576
SizeFloor == 1000000
MagicLen == 15
PageSize == 2000

Procs == 1..NumProcs

Min(a, b) == IF a < b THEN a ELSE b

\* ------------------------------------------------------------ file contents
\* A content is what a complete file holds: whether its first 15 bytes are
\* the SQLite magic, its size in bytes, and whether SQLite can read it.
BigSize == (NumChunks - 1) * ChunkSize + MagicLen

Good == [hdr |-> TRUE, size |-> BigSize, sq |-> TRUE]
Small == [hdr |-> TRUE, size |-> SizeFloor, sq |-> TRUE]
Malformed == [hdr |-> TRUE, size |-> BigSize, sq |-> FALSE]
Garbage == [hdr |-> FALSE, size |-> PageSize, sq |-> FALSE]

Contents == {Good, Small, Malformed, Garbage}

\* A file on disk: the content being written to it and the bytes written so far.
NoFile == [exists |-> FALSE, c |-> Garbage, n |-> 0]

File(c, n) == [exists |-> TRUE, c |-> c, n |-> n]

WholeFile(c) == File(c, c.size)

Complete(f) == f.exists /\ f.n = f.c.size

\* ------------------------------------------------------------------ Validator
looks_like_sqlite(f) == f.exists /\ f.n >= MagicLen /\ f.c.hdr

st_size(f) == f.n

\* sqlite3.connect + the PRAGMAs of _open: "ok", "corrupt" (DatabaseError whose
\* message has 'malformed' or 'file is not a database'), or "cantopen"
\* (OperationalError: unable to open database file).
sqlite_open(f) ==
    IF ~f.exists THEN "cantopen"
    ELSE IF f.n = 0 THEN "ok"
    ELSE IF Complete(f) /\ f.c.sq THEN "ok"
    ELSE "corrupt"

\* ------------------------------------------------------------ remote payloads
\* Member names are sequences of characters, so that lower() and endswith()
\* are computed and not assumed.
NameDb == <<"x", ".", "d", "b">>
NameDbUpper == <<"X", ".", "D", "B">>
NameTxt == <<"x", ".", "t", "x", "t">>

lower_char(ch) ==
    CASE ch = "X" -> "x"
      [] ch = "D" -> "d"
      [] ch = "B" -> "b"
      [] OTHER -> ch

lower(s) == [i \in 1..Len(s) |-> lower_char(s[i])]

DbSuffix == <<".", "d", "b">>

endswith(s, suf) ==
    /\ Len(s) >= Len(suf)
    /\ SubSeq(s, Len(s) - Len(suf) + 1, Len(s)) = suf

Member(name, c) == [name |-> name, c |-> c]

ZipOf(members) == [kind |-> "zip", members |-> members, c |-> Garbage]

ZipGood == ZipOf(<<Member(NameTxt, Garbage), Member(NameDbUpper, Good), Member(NameDb, Garbage)>>)
ZipSmall == ZipOf(<<Member(NameDb, Small)>>)
ZipMalformed == ZipOf(<<Member(NameDb, Malformed)>>)
ZipGarbage == ZipOf(<<Member(NameDb, Garbage)>>)
ZipNoDb == ZipOf(<<Member(NameTxt, Good)>>)

HttpError == [kind |-> "error", members |-> <<>>, c |-> Garbage]
HtmlInterstitial == [kind |-> "html", members |-> <<>>, c |-> Garbage]
RawGood == [kind |-> "raw", members |-> <<>>, c |-> Good]

Payloads ==
    {ZipGood, ZipSmall, ZipMalformed, ZipGarbage, ZipNoDb,
     HttpError, HtmlInterstitial, RawGood}

\* Bytes of the response body: an archive is compressed, so its length is not
\* that of its members; here every archive takes two chunks to stream.
PayloadSize(r) ==
    CASE r.kind = "zip" -> ChunkSize + PageSize
      [] r.kind = "raw" -> r.c.size
      [] OTHER -> PageSize

\* The mistake of matching the suffix without lower().
IsDbMemberCaseSensitive(m) == endswith(m.name, DbSuffix)

\* z.namelist() filtered by n.lower().endswith(".db")
IsDbMember(m) == endswith(lower(m.name), DbSuffix)

db_files(r) == SelectSeq(r.members, IsDbMember)

\* An archive whose first .db member is a readable snapshot above the size floor.
ValidArchive(r) ==
    /\ r.kind = "zip"
    /\ db_files(r) # <<>>
    /\ db_files(r)[1].c = Good

\* ---------------------------------------------------------------------- state
VARIABLES
    urlSet,     \* DB_URL is configured
    db,         \* the file at DB_PATH
    pc,         \* pc[p]: where request p is in connect()/ensure_db_present()
    attempt,    \* attempt[p]: 1 in the try of connect(), 2 in its except branch
    tmp_zip,    \* tmp_zip[p]: td/payload.zip of p's TemporaryDirectory
    tmp_got,    \* tmp_got[p]: the response p is streaming to payload.zip
    tmp_db,     \* tmp_db[p]: td/extracted.db
    conn,       \* conn[p]: the file p's connection has open
    outcome,    \* outcome[p]: "none", "conn" or the error connect() raised
    req,        \* req[p]: history of p's current connect() call
    nreq,       \* connect() calls started so far
    seen,       \* the outcomes of the requests that have finished
    track,      \* whether req and seen are recorded (sequential runs only)
    call,       \* the query-layer call being evaluated: [op, args, result]
    data        \* the tables of the snapshot the query layer reads

vars == <<urlSet, db, pc, attempt, tmp_zip, tmp_got, tmp_db, conn, outcome, req, nreq, seen, track, call, data>>

NoReq ==
    [start |-> NoFile, ngets |-> 0, allValid |-> TRUE, gotHtml |-> FALSE,
     nens |-> 0, nheal |-> 0, nmut |-> 0, ensStart |-> NoFile, ensGets |-> 0,
     fetchStart |-> NoFile, got |-> HttpError]

NoCall == [op |-> "none", args |-> <<>>, result |-> <<>>]

NoData == [cols |-> {}, cities |-> <<>>, weather |-> <<>>]

ProvisioningFailures ==
    {"FetchFailed", "BadArchive", "NoSnapshotInArchive", "InvalidSnapshotFormat"}

InitDb == {NoFile} \cup {WholeFile(c) : c \in Contents}

InitProgram ==
    /\ urlSet \in BOOLEAN
    /\ db \in InitDb
    /\ pc = [p \in Procs |-> "idle"]
    /\ attempt = [p \in Procs |-> 1]
    /\ tmp_zip = [p \in Procs |-> NoFile]
    /\ tmp_got = [p \in Procs |-> HttpError]
    /\ tmp_db = [p \in Procs |-> NoFile]
    /\ conn = [p \in Procs |-> NoFile]
    /\ outcome = [p \in Procs |-> "none"]
    /\ req = [p \in Procs |-> NoReq]
    /\ nreq = 0
    /\ seen = {}

\* The history variables req and seen are observers: no guard and no
\* assignment to the program's state reads them.  They are recorded in the
\* sequential specification, where the claims about one call are stated, and
\* stay constant in the concurrent one.
Init == InitProgram /\ track = FALSE /\ call = NoCall /\ data = NoData

InitSeq == InitProgram /\ track = TRUE /\ call = NoCall /\ data = NoData

Record(p, r) == req' = [req EXCEPT ![p] = IF track THEN r ELSE @]

\* ------------------------------------------------------------------- helpers
Goto(p, l) == pc' = [pc EXCEPT ![p] = l]

\* An exception leaves ensure_db_present() and connect(): the with-blocks remove
\* the temporary directory, and the request ends with the error.
Raise(p, e) ==
    /\ pc' = [pc EXCEPT ![p] = "done"]
    /\ outcome' = [outcome EXCEPT ![p] = e]
    /\ tmp_zip' = [tmp_zip EXCEPT ![p] = NoFile]
    /\ tmp_db' = [tmp_db EXCEPT ![p] = NoFile]

Keep(p) == UNCHANGED <<outcome, tmp_zip, tmp_db>>

\* ------------------------------------------------------------------- connect
\* A request enters connect() (line 122).
Start(p) ==
    /\ pc[p] = "idle"
    /\ nreq < MaxRequests
    /\ nreq' = nreq + 1
    /\ Goto(p, "ensure")
    /\ attempt' = [attempt EXCEPT ![p] = 1]
    /\ Record(p, [NoReq EXCEPT !.start = db])
    /\ UNCHANGED <<urlSet, db, tmp_zip, tmp_got, tmp_db, conn, outcome, seen, track, call, data>>

\* ---------------------------------------------------------- ensure_db_present
\* The mistake of leaving the configuration check out.
EnsureNoUrlCheck(p) ==
    /\ pc[p] = "ensure"
    /\ Record(p, [req[p] EXCEPT !.nens = @ + 1, !.ensStart = db, !.ensGets = 0])
    /\ Goto(p, "corruptExists")
    /\ Keep(p)
    /\ UNCHANGED <<urlSet, db, attempt, tmp_got, conn, nreq, seen, track, call, data>>

\* Lines 62-66: the configuration check.
EnsureCheckUrl(p) ==
    /\ pc[p] = "ensure"
    /\ Record(p, [req[p] EXCEPT !.nens = @ + 1, !.ensStart = db, !.ensGets = 0])
    /\ IF ~urlSet
         THEN Raise(p, "ConfigError")
         ELSE Goto(p, "corruptExists") /\ Keep(p)
    /\ UNCHANGED <<urlSet, db, attempt, tmp_got, conn, nreq, seen, track, call, data>>

\* Line 69, db_path.exists()
CorruptExists(p) ==
    /\ pc[p] = "corruptExists"
    /\ Goto(p, IF db.exists THEN "corruptLook" ELSE "cachedExists")
    /\ UNCHANGED <<urlSet, db, attempt, tmp_zip, tmp_got, tmp_db, conn, outcome, req, nreq, seen, track, call, data>>

\* The mistake of inverting the header test of line 69.
CorruptLookInverted(p) ==
    /\ pc[p] = "corruptLook"
    /\ Goto(p, IF looks_like_sqlite(db) THEN "corruptUnlink" ELSE "cachedExists")
    /\ UNCHANGED <<urlSet, db, attempt, tmp_zip, tmp_got, tmp_db, conn, outcome, req, nreq, seen, track, call, data>>

\* Line 69, not _looks_like_sqlite(db_path)
CorruptLook(p) ==
    /\ pc[p] = "corruptLook"
    /\ Goto(p, IF ~looks_like_sqlite(db) THEN "corruptUnlink" ELSE "cachedExists")
    /\ UNCHANGED <<urlSet, db, attempt, tmp_zip, tmp_got, tmp_db, conn, outcome, req, nreq, seen, track, call, data>>

\* Line 70, db_path.unlink(): raises FileNotFoundError when the file is gone.
CorruptUnlink(p) ==
    /\ pc[p] = "corruptUnlink"
    /\ IF db.exists
         THEN /\ db' = NoFile
              /\ Record(p, [req[p] EXCEPT !.nmut = @ + 1])
              /\ Goto(p, "cachedExists")
              /\ Keep(p)
         ELSE /\ Raise(p, "FileNotFound")
              /\ UNCHANGED <<db, req>>
    /\ UNCHANGED <<urlSet, attempt, tmp_got, conn, nreq, seen, track, call, data>>

\* Line 73, db_path.exists()
CachedExists(p) ==
    /\ pc[p] = "cachedExists"
    /\ Goto(p, IF db.exists THEN "cachedLook" ELSE "dlGet")
    /\ UNCHANGED <<urlSet, db, attempt, tmp_zip, tmp_got, tmp_db, conn, outcome, req, nreq, seen, track, call, data>>

\* Line 73, _looks_like_sqlite(db_path)
CachedLook(p) ==
    /\ pc[p] = "cachedLook"
    /\ Goto(p, IF looks_like_sqlite(db) THEN "cachedStat" ELSE "dlGet")
    /\ UNCHANGED <<urlSet, db, attempt, tmp_zip, tmp_got, tmp_db, conn, outcome, req, nreq, seen, track, call, data>>

\* The mistake of comparing the size the wrong way round (< for >).
CachedStatReversed(p) ==
    /\ pc[p] = "cachedStat"
    /\ IF ~db.exists
         THEN Raise(p, "FileNotFound")
         ELSE /\ Goto(p, IF st_size(db) < SizeFloor THEN "open" ELSE "dlGet")
              /\ Keep(p)
    /\ UNCHANGED <<urlSet, db, attempt, tmp_got, conn, req, nreq, seen, track, call, data>>

\* The mistake of accepting a file whose size is exactly the floor (>= for >).
CachedStatAtFloor(p) ==
    /\ pc[p] = "cachedStat"
    /\ IF ~db.exists
         THEN Raise(p, "FileNotFound")
         ELSE /\ Goto(p, IF st_size(db) >= SizeFloor THEN "open" ELSE "dlGet")
              /\ Keep(p)
    /\ UNCHANGED <<urlSet, db, attempt, tmp_got, conn, req, nreq, seen, track, call, data>>

\* Line 73-74, db_path.stat().st_size > 1_000_000: return, or go on to the fetch.
CachedStat(p) ==
    /\ pc[p] = "cachedStat"
    /\ IF ~db.exists
         THEN Raise(p, "FileNotFound")
         ELSE /\ Goto(p, IF st_size(db) > SizeFloor THEN "open" ELSE "dlGet")
              /\ Keep(p)
    /\ UNCHANGED <<urlSet, db, attempt, tmp_got, conn, req, nreq, seen, track, call, data>>

\* A fetcher that resolves the interstitial: on a text/html answer it issues a
\* second GET with the token and streams that response.
DlGetConfirm(p) ==
    /\ pc[p] = "dlGet"
    /\ \E r \in Payloads, r2 \in Payloads \ {HtmlInterstitial} :
        LET got == IF r.kind = "html" THEN r2 ELSE r
            gets == IF r.kind = "html" THEN 2 ELSE 1
        IN  /\ Record(p, [req[p] EXCEPT !.ngets = @ + gets, !.ensGets = @ + gets,
                                         !.allValid = @ /\ ValidArchive(got),
                                         !.gotHtml = @ \/ r.kind = "html",
                                         !.fetchStart = db, !.got = got])
            /\ IF got.kind = "error"
                 THEN Raise(p, "FetchFailed") /\ UNCHANGED tmp_got
                 ELSE /\ tmp_zip' = [tmp_zip EXCEPT ![p] = File(Garbage, 0)]
                      /\ tmp_got' = [tmp_got EXCEPT ![p] = got]
                      /\ Goto(p, "dlWrite")
                      /\ UNCHANGED <<outcome, tmp_db>>
    /\ UNCHANGED <<urlSet, db, attempt, conn, nreq, seen, track, call, data>>

\* Lines 53-55 of _download_to_file: one GET, raise_for_status, open the output.
DlGet(p) ==
    /\ pc[p] = "dlGet"
    /\ \E r \in Payloads :
        /\ Record(p, [req[p] EXCEPT !.ngets = @ + 1, !.ensGets = @ + 1,
                                     !.allValid = @ /\ ValidArchive(r),
                                     !.gotHtml = @ \/ r.kind = "html",
                                     !.fetchStart = db, !.got = r])
        /\ IF r.kind = "error"
             THEN Raise(p, "FetchFailed") /\ UNCHANGED tmp_got
             ELSE /\ tmp_zip' = [tmp_zip EXCEPT ![p] = File(Garbage, 0)]
                  /\ tmp_got' = [tmp_got EXCEPT ![p] = r]
                  /\ Goto(p, "dlWrite")
                  /\ UNCHANGED <<outcome, tmp_db>>
    /\ UNCHANGED <<urlSet, db, attempt, conn, nreq, seen, track, call, data>>

\* Line 56: iter_content has no more chunks.
StreamDone(p) == tmp_zip[p].n = PayloadSize(tmp_got[p])

\* Lines 56-58: the next chunk of the response body.
DlWrite(p) ==
    /\ pc[p] = "dlWrite"
    /\ ~StreamDone(p)
    /\ tmp_zip' = [tmp_zip EXCEPT ![p].n = Min(@ + ChunkSize, PayloadSize(tmp_got[p]))]
    /\ UNCHANGED <<urlSet, db, pc, attempt, tmp_got, tmp_db, conn, outcome, req, nreq, seen, track, call, data>>

\* The mistake of removing the canonical file when the archive is unusable.
ZipOpenUnlinks(p) ==
    /\ pc[p] = "dlWrite"
    /\ StreamDone(p)
    /\ IF tmp_got[p].kind # "zip"
         THEN Raise(p, "BadArchive") /\ db' = NoFile
         ELSE IF db_files(tmp_got[p]) = <<>>
         THEN Raise(p, "NoSnapshotInArchive") /\ db' = NoFile
         ELSE /\ tmp_db' = [tmp_db EXCEPT ![p] = File(db_files(tmp_got[p])[1].c, 0)]
              /\ Goto(p, "exCopy")
              /\ UNCHANGED <<outcome, tmp_zip, db>>
    /\ tmp_got' = [tmp_got EXCEPT ![p] = HttpError]
    /\ UNCHANGED <<urlSet, attempt, conn, req, nreq, seen, track, call, data>>

\* Lines 83-89, at the end of the stream: open the archive, pick db_files[0],
\* open extracted.db.
ZipOpen(p) ==
    /\ pc[p] = "dlWrite"
    /\ StreamDone(p)
    /\ IF tmp_got[p].kind # "zip"
         THEN Raise(p, "BadArchive")
         ELSE IF db_files(tmp_got[p]) = <<>>
         THEN Raise(p, "NoSnapshotInArchive")
         ELSE /\ tmp_db' = [tmp_db EXCEPT ![p] = File(db_files(tmp_got[p])[1].c, 0)]
              /\ Goto(p, "exCopy")
              /\ UNCHANGED <<outcome, tmp_zip>>
    /\ tmp_got' = [tmp_got EXCEPT ![p] = HttpError]
    /\ UNCHANGED <<urlSet, db, attempt, conn, req, nreq, seen, track, call, data>>

\* The mistake of leaving the copy loop after the first chunk.
ExtractDoneEarly(t) == t.n > 0

\* Line 92, `if not buf: break`: src.read returned no more bytes.
ExtractDone(t) == t.n = t.c.size

\* Lines 90-94: copy one chunk of the member.
ExCopy(p) ==
    /\ pc[p] = "exCopy"
    /\ ~ExtractDone(tmp_db[p])
    /\ tmp_db' = [tmp_db EXCEPT ![p].n = Min(@ + ChunkSize, tmp_db[p].c.size)]
    /\ UNCHANGED <<urlSet, db, pc, attempt, tmp_zip, tmp_got, conn, outcome, req, nreq, seen, track, call, data>>

\* The mistake of leaving the rename out: the extracted file is dropped with
\* the temporary directory.
ReplaceSkipped(p) ==
    /\ pc[p] = "exCopy"
    /\ ExtractDone(tmp_db[p])
    /\ tmp_db' = [tmp_db EXCEPT ![p] = NoFile]
    /\ tmp_zip' = [tmp_zip EXCEPT ![p] = NoFile]
    /\ Goto(p, "validate")
    /\ UNCHANGED <<urlSet, db, attempt, tmp_got, conn, outcome, req, nreq, seen, track, call, data>>

\* Line 97, once the copy loop has ended: tmp_db.replace(db_path), and the end
\* of the with-blocks.
Replace(p) ==
    /\ pc[p] = "exCopy"
    /\ ExtractDone(tmp_db[p])
    /\ db' = tmp_db[p]
    /\ tmp_db' = [tmp_db EXCEPT ![p] = NoFile]
    /\ tmp_zip' = [tmp_zip EXCEPT ![p] = NoFile]
    /\ Record(p, [req[p] EXCEPT !.nmut = @ + 1])
    /\ Goto(p, "validate")
    /\ UNCHANGED <<urlSet, attempt, tmp_got, conn, outcome, nreq, seen, track, call, data>>

\* Lines 101-104: the final validation.
Validate(p) ==
    /\ pc[p] = "validate"
    /\ IF looks_like_sqlite(db)
         THEN Goto(p, "open") /\ Keep(p)
         ELSE IF db.exists
         THEN Raise(p, "InvalidSnapshotFormat")
         ELSE Raise(p, "FileNotFound")
    /\ UNCHANGED <<urlSet, db, attempt, tmp_got, conn, req, nreq, seen, track, call, data>>

\* ------------------------------------------------------- connect, after ensure
\* The mistake of healing on every DatabaseError, whatever its message.
OpenHealAny(p) ==
    /\ pc[p] = "open"
    /\ IF sqlite_open(db) = "ok"
         THEN /\ conn' = [conn EXCEPT ![p] = db]
              /\ outcome' = [outcome EXCEPT ![p] = "conn"]
              /\ Goto(p, "done")
              /\ UNCHANGED <<tmp_zip, tmp_db>>
         ELSE /\ UNCHANGED conn
              /\ IF attempt[p] = 1
                   THEN Goto(p, "healExists") /\ Keep(p)
                   ELSE Raise(p, "SnapshotUnreadable")
    /\ UNCHANGED <<urlSet, db, attempt, tmp_got, req, nreq, seen, track, call, data>>

\* Lines 124-130 and 139: _open(), and what the except branch does with the error.
Open(p) ==
    /\ pc[p] = "open"
    /\ IF sqlite_open(db) = "ok"
         THEN /\ conn' = [conn EXCEPT ![p] = db]
              /\ outcome' = [outcome EXCEPT ![p] = "conn"]
              /\ Goto(p, "done")
              /\ UNCHANGED <<tmp_zip, tmp_db>>
         ELSE /\ UNCHANGED conn
              /\ IF sqlite_open(db) = "cantopen"
                   THEN Raise(p, "OpenError")
                   ELSE IF attempt[p] = 1
                   THEN Goto(p, "healExists") /\ Keep(p)
                   ELSE Raise(p, "SnapshotUnreadable")
    /\ UNCHANGED <<urlSet, db, attempt, tmp_got, req, nreq, seen, track, call, data>>

\* Line 133, p.exists()
HealExists(p) ==
    /\ pc[p] = "healExists"
    /\ IF db.exists
         THEN Goto(p, "healUnlink") /\ UNCHANGED attempt
         ELSE Goto(p, "ensure") /\ attempt' = [attempt EXCEPT ![p] = 2]
    /\ UNCHANGED <<urlSet, db, tmp_zip, tmp_got, tmp_db, conn, outcome, req, nreq, seen, track, call, data>>

\* The mistake of retrying in a loop: the retry re-enters the try block.
HealUnlinkLoop(p) ==
    /\ pc[p] = "healUnlink"
    /\ IF db.exists
         THEN /\ db' = NoFile
              /\ Record(p, [req[p] EXCEPT !.nheal = @ + 1, !.nmut = @ + 1])
         ELSE UNCHANGED <<db, req>>
    /\ Goto(p, "ensure")
    /\ UNCHANGED <<urlSet, attempt, tmp_zip, tmp_got, tmp_db, conn, outcome, nreq, seen, track, call, data>>

\* Lines 134-138: p.unlink() (a failure is swallowed), then the second ensure.
HealUnlink(p) ==
    /\ pc[p] = "healUnlink"
    /\ IF db.exists
         THEN /\ db' = NoFile
              /\ Record(p, [req[p] EXCEPT !.nheal = @ + 1, !.nmut = @ + 1])
         ELSE UNCHANGED <<db, req>>
    /\ Goto(p, "ensure")
    /\ attempt' = [attempt EXCEPT ![p] = 2]
    /\ UNCHANGED <<urlSet, tmp_zip, tmp_got, tmp_db, conn, outcome, nreq, seen, track, call, data>>

\* The request is over: its handler returns or its error is reported.
Finish(p) ==
    /\ pc[p] = "done"
    /\ Goto(p, "idle")
    /\ seen' = IF track THEN seen \cup {outcome[p]} ELSE seen
    /\ outcome' = [outcome EXCEPT ![p] = "none"]
    /\ conn' = [conn EXCEPT ![p] = NoFile]
    /\ req' = [req EXCEPT ![p] = NoReq]
    /\ attempt' = [attempt EXCEPT ![p] = 1]
    /\ tmp_got' = [tmp_got EXCEPT ![p] = HttpError]
    /\ UNCHANGED <<urlSet, db, tmp_zip, tmp_db, nreq, track, call, data>>

Step(p) ==
    \/ Start(p)
    \/ EnsureCheckUrl(p)
    \/ CorruptExists(p)
    \/ CorruptLook(p)
    \/ CorruptUnlink(p)
    \/ CachedExists(p)
    \/ CachedLook(p)
    \/ CachedStat(p)
    \/ DlGet(p)
    \/ DlWrite(p)
    \/ ZipOpen(p)
    \/ ExCopy(p)
    \/ Replace(p)
    \/ Validate(p)
    \/ Open(p)
    \/ HealExists(p)
    \/ HealUnlink(p)
    \/ Finish(p)

\* Requests run concurrently, one thread per request.
Next == \E p \in Procs : Step(p)

Spec == Init /\ [][Next]_vars

\* One request at a time: no other request is inside connect().
Solo(p) == \A q \in Procs \ {p} : pc[q] = "idle"

NextSeq ==
    \E p \in Procs :
        \/ Solo(p) /\ Start(p)
        \/ Solo(p) /\ EnsureCheckUrl(p)
        \/ Solo(p) /\ CorruptExists(p)
        \/ Solo(p) /\ CorruptLook(p)
        \/ Solo(p) /\ CorruptUnlink(p)
        \/ Solo(p) /\ CachedExists(p)
        \/ Solo(p) /\ CachedLook(p)
        \/ Solo(p) /\ CachedStat(p)
        \/ Solo(p) /\ DlGet(p)
        \/ Solo(p) /\ DlWrite(p)
        \/ Solo(p) /\ ZipOpen(p)
        \/ Solo(p) /\ ExCopy(p)
        \/ Solo(p) /\ Replace(p)
        \/ Solo(p) /\ Validate(p)
        \/ Solo(p) /\ Open(p)
        \/ Solo(p) /\ HealExists(p)
        \/ Solo(p) /\ HealUnlink(p)
        \/ Solo(p) /\ Finish(p)

SpecSeq == InitSeq /\ [][NextSeq]_vars

\* A request thread that can take a step takes it: every step is a system call
\* or a network read with a timeout.
SpecSeqFair == SpecSeq /\ WF_vars(NextSeq)

\* ------------------------------------------------------------- query helpers
MonthsPerYear == 12
DaysPerMonth == 30
SlotsPerDay == 3

\* The mistake of counting months from 0 (month * 30 instead of (month - 1) * 30).
slot_index_month0(month, day, tod) == (month * DaysPerMonth + (day - 1)) * SlotsPerDay + tod

\* Line 175
slot_index(month, day, tod) == ((month - 1) * DaysPerMonth + (day - 1)) * SlotsPerDay + tod

SlotDomain == (1..MonthsPerYear) \X (1..DaysPerMonth) \X (0..(SlotsPerDay - 1))

\* ------------------------------------------------------ the weather table
\* A row of the weather table, reduced to the columns the WHERE and ORDER BY
\* clauses read.
WRow(c, s) == [city_id |-> c, slot_index |-> s]

MaxSlot == 5

Reverse(s) == [i \in 1..Len(s) |-> s[Len(s) + 1 - i]]

\* City 1 has one row for every slot index 0..MaxSlot; city 2 has two rows.
DenseRows == [i \in 1..(MaxSlot + 1) |-> WRow(1, i - 1)]

\* The table in three storage orders: ascending, descending with another
\* city's rows around it, and the other city's rows first.
WeatherTables ==
    { DenseRows,
      <<WRow(2, 4)>> \o Reverse(DenseRows) \o <<WRow(2, 1)>>,
      <<WRow(2, 4), WRow(2, 1)>> \o DenseRows }

\* ORDER BY slot_index: insertion sort into ascending order.
RECURSIVE insert_by_slot(_, _)
insert_by_slot(r, sorted) ==
    IF sorted = <<>> THEN <<r>>
    ELSE IF r.slot_index < Head(sorted).slot_index THEN <<r>> \o sorted
    ELSE <<Head(sorted)>> \o insert_by_slot(r, Tail(sorted))

RECURSIVE order_by_slot(_)
order_by_slot(rows) ==
    IF rows = <<>> THEN <<>>
    ELSE insert_by_slot(Head(rows), order_by_slot(Tail(rows)))

\* The mistake of an inclusive upper end (slot_index <= end).
forecast_inclusive(weather, city_id, month, day, tod, days) ==
    LET start == slot_index(month, day, tod)
        end == start + days * SlotsPerDay
        InRange(r) == r.city_id = city_id /\ r.slot_index >= start /\ r.slot_index <= end
    IN  order_by_slot(SelectSeq(weather, InRange))

\* Lines 264-288: the half-open range [start, start + days * 3) of one city,
\* ordered by slot index.
forecast(weather, city_id, month, day, tod, days) ==
    LET start == slot_index(month, day, tod)
        end == start + days * SlotsPerDay
        InRange(r) == r.city_id = city_id /\ r.slot_index >= start /\ r.slot_index < end
    IN  order_by_slot(SelectSeq(weather, InRange))

\* The inputs of a forecast call: the first days of the year, the first day of
\* the second month (past every stored row), and day counts around zero.
ForecastInputs ==
    /\ \E w \in WeatherTables : data = [NoData EXCEPT !.weather = w]
    /\ \E c \in 1..3, m \in 1..2, d \in 1..3, t \in 0..(SlotsPerDay - 1), n \in (-1)..2 :
           call = [op |-> "forecast", args |-> <<c, m, d, t, n>>, result |-> <<>>]

\* -------------------------------------------------------- the cities table
\* A nullable column value is <<>> (NULL) or <<v>>. Continent and country
\* names are numbered in collation order; 0 is the blank string.
NULL == <<>>

BaseCols == {"city_id", "name", "lat", "lon"}
OptionalCols == {"continent", "country", "svg_x", "svg_y"}

\* The column sets a snapshot's cities table can have (PRAGMA table_info).
ColumnSets == {BaseCols \cup s : s \in SUBSET OptionalCols}

CityRow(id, name, lat, lon, x, y, cont, ctry) ==
    [city_id |-> id, name |-> name, lat |-> lat, lon |-> lon,
     svg_x |-> x, svg_y |-> y, continent |-> cont, country |-> ctry]

CityA == CityRow(3, <<"X", "d">>, <<0>>, <<0>>, <<0>>, <<0>>, <<1>>, <<1>>)
CityB == CityRow(1, <<"b">>, <<60>>, <<90>>, <<3>>, <<4>>, <<1>>, <<2>>)
CityC == CityRow(2, <<"d", "x">>, <<-60>>, <<90>>, <<4>>, <<3>>, <<2>>, <<3>>)
CityD == CityRow(4, <<"x", "b">>, NULL, <<0>>, NULL, <<1>>, NULL, <<0>>)

CandidateCities == {CityA, CityB, CityC, CityD}

MaxCities == 3

\* The cities table in every storage order of up to MaxCities distinct rows.
CityTables ==
    {s \in UNION {[1..k -> CandidateCities] : k \in 0..MaxCities} :
        \A i \in 1..Len(s), j \in 1..Len(s) : i # j => s[i] # s[j]}

\* ------------------------------------------------------------- responses
\* What a handler answers: the HTTP status, the error detail (message, missing
\* and present columns), the parameters of the data queries it executed, and
\* the body.
Resp(status, msg, missing, present, sql, body) ==
    [status |-> status, msg |-> msg, missing |-> missing, present |-> present,
     sql |-> sql, body |-> body]

Ok(params, body) == Resp(200, "", <<>>, {}, <<params>>, body)

NotFound(msg, params) == Resp(404, msg, <<>>, {}, <<params>>, <<>>)

\* Lines 144-146: the names PRAGMA table_info reports.
table_columns(cols) == cols

\* The mistake of reporting every required column as missing.
require_cols_all(existing, cols) ==
    LET missing == SelectSeq(cols, LAMBDA c : c \notin existing)
    IN  [raised |-> missing # <<>>,
         exc |-> Resp(501, "DB is missing columns", cols, existing, <<>>, <<>>)]

\* Lines 149-157: raises HTTPException(501) listing the missing columns in the
\* order of cols and the present ones, or returns.
require_cols(existing, cols) ==
    LET missing == SelectSeq(cols, LAMBDA c : c \notin existing)
    IN  [raised |-> missing # <<>>,
         exc |-> Resp(501, "DB is missing columns", missing, existing, <<>>, <<>>)]

\* ------------------------------------------------------------- listings
PageCap == 5000

Max(a, b) == IF a > b THEN a ELSE b

\* The mistake of leaving the page size without its upper cap.
clamp_limit_uncapped(limit) == Max(1, limit)

\* Lines 297, 389, 411
clamp_limit(limit) == Max(1, Min(limit, PageCap))

\* Lines 298, 390, 412
clamp_offset(offset) == Max(0, offset)

\* ORDER BY city_id
RECURSIVE insert_by_city_id(_, _)
insert_by_city_id(r, sorted) ==
    IF sorted = <<>> THEN <<r>>
    ELSE IF r.city_id < Head(sorted).city_id THEN <<r>> \o sorted
    ELSE <<Head(sorted)>> \o insert_by_city_id(r, Tail(sorted))

RECURSIVE order_by_city_id(_)
order_by_city_id(rows) ==
    IF rows = <<>> THEN <<>>
    ELSE insert_by_city_id(Head(rows), order_by_city_id(Tail(rows)))

\* LIMIT ? OFFSET ?
limit_offset(rows, limit, offset) ==
    IF offset >= Len(rows) THEN <<>>
    ELSE SubSeq(rows, offset + 1, Min(Len(rows), offset + limit))

\* name LIKE '%q%': a substring match that ignores ASCII case.
like_contains(name, q) ==
    \E i \in 1..(Len(name) - Len(q) + 1) :
        lower(SubSeq(name, i, i + Len(q) - 1)) = lower(q)

\* Lines 291-331; q = <<>> stands for no search string.
list_cities(cols, cities, q, limit, offset) ==
    LET l == clamp_limit(limit)
        o == clamp_offset(offset)
        existing == table_columns(cols)
        Project(r) ==
            [city_id |-> r.city_id, name |-> r.name, lat |-> r.lat, lon |-> r.lon,
             continent |-> IF "continent" \in existing THEN r.continent ELSE NULL,
             country |-> IF "country" \in existing THEN r.country ELSE NULL]
        matching == IF q # <<>> THEN SelectSeq(cities, LAMBDA r : like_contains(r.name, q))
                    ELSE cities
        rows == limit_offset(order_by_city_id(matching), l, o)
    IN  Ok(<<l, o>>, [i \in 1..Len(rows) |-> Project(rows[i])])

\* Lines 383-402
cities_by_continent(cols, cities, continent, limit, offset) ==
    LET l == clamp_limit(limit)
        o == clamp_offset(offset)
        chk == require_cols(table_columns(cols), <<"continent", "svg_x", "svg_y">>)
        matching == SelectSeq(cities, LAMBDA r : r.continent = <<continent>>)
    IN  IF chk.raised THEN chk.exc
        ELSE Ok(<<l, o>>, limit_offset(order_by_city_id(matching), l, o))

\* Lines 405-424
cities_by_country(cols, cities, country, limit, offset) ==
    LET l == clamp_limit(limit)
        o == clamp_offset(offset)
        chk == require_cols(table_columns(cols), <<"country", "svg_x", "svg_y">>)
        matching == SelectSeq(cities, LAMBDA r : r.country = <<country>>)
    IN  IF chk.raised THEN chk.exc
        ELSE Ok(<<l, o>>, limit_offset(order_by_city_id(matching), l, o))

\* The snapshots a query over the cities table is answered from.
CitySnapshots ==
    {[NoData EXCEPT !.cols = cs, !.cities = t] : cs \in ColumnSets, t \in CityTables}

\* Page sizes and offsets below, at and above the bounds of the clamps.
LimitInputs == {-1, 0, 1, 2, PageCap, PageCap + 1, 100000}
OffsetInputs == {-5, 0, 1, 4}

ListingInputs ==
    /\ data \in CitySnapshots
    /\ \E limit \in LimitInputs, offset \in OffsetInputs :
        \/ \E q \in {<<>>, <<"x">>} :
              call = [op |-> "list_cities", args |-> <<q, limit, offset>>, result |-> <<>>]
        \/ \E name \in 1..2, op \in {"cities_by_continent", "cities_by_country"} :
              call = [op |-> op, args |-> <<name, limit, offset>>, result |-> <<>>]

\* ---------------------------------------------------------------- get_city
\* The select list of lines 197-203 as the SQL parser reads it: the items that
\* the commas separate, each a sequence of tokens. No comma follows svg_y on
\* line 198, so svg_y and the next line are one item.
GetCitySelectList ==
    << <<"city_id">>, <<"name">>, <<"lat">>, <<"lon">>,
       <<"svg_x">>, <<"svg_y", "elev_ft_refined", "AS", "elev_ft">>,
       <<"trewartha">>, <<"biomes">>,
       <<"continent">>, <<"country">>,
       <<"dist_to_coast_mi">>, <<"relief_100mi_ft">>,
       <<"terrain_type">>, <<"terrain_flavor">> >>

\* A result column is a column name, a name with an alias, or a name AS alias.
result_column_parses(item) ==
    \/ Len(item) = 1 /\ item[1] # "AS"
    \/ Len(item) = 2 /\ item[1] # "AS" /\ item[2] # "AS"
    \/ Len(item) = 3 /\ item[1] # "AS" /\ item[2] = "AS" /\ item[3] # "AS"

sql_parses(select_list) ==
    \A i \in 1..Len(select_list) : result_column_parses(select_list[i])

\* sqlite3.OperationalError raised by con.execute; FastAPI answers 500.
SyntaxError == Resp(500, "near AS: syntax error", <<>>, {}, <<>>, <<>>)

\* Lines 189-213
get_city(cols, cities, city_id) ==
    LET chk == require_cols(table_columns(cols), <<"continent", "country", "svg_x", "svg_y">>)
        rows == SelectSeq(cities, LAMBDA r : r.city_id = city_id)
    IN  IF chk.raised THEN chk.exc
        ELSE IF ~sql_parses(GetCitySelectList) THEN SyntaxError
        ELSE IF rows = <<>> THEN NotFound("City not found", <<city_id>>)
        ELSE Ok(<<city_id>>, Head(rows))

GetCityInputs ==
    /\ data \in CitySnapshots
    /\ \E city_id \in 1..5 : call = [op |-> "get_city", args |-> <<city_id>>, result |-> <<>>]

\* -------------------------------------------------------------- aggregates
\* GROUP BY field over the rows whose field is neither NULL nor blank, with
\* COUNT(*), ORDER BY city_count DESC, field ASC.
group_names(rows, field) ==
    {rows[i][field][1] : i \in {j \in 1..Len(rows) : rows[j][field] # NULL /\ rows[j][field] # <<0>>}}

city_count(rows, field, name) ==
    Cardinality({i \in 1..Len(rows) : rows[i][field] = <<name>>})

RECURSIVE ordered_groups(_, _, _)
ordered_groups(rows, field, names) ==
    IF names = {} THEN <<>>
    ELSE LET first == CHOOSE n \in names : \A m \in names :
                          \/ city_count(rows, field, n) > city_count(rows, field, m)
                          \/ /\ city_count(rows, field, n) = city_count(rows, field, m)
                             /\ n <= m
         IN  <<[name |-> first, city_count |-> city_count(rows, field, first)]>>
                 \o ordered_groups(rows, field, names \ {first})

group_by(rows, field) == ordered_groups(rows, field, group_names(rows, field))

\* Lines 334-349
list_continents(cols, cities) ==
    LET chk == require_cols(table_columns(cols), <<"continent">>)
    IN  IF chk.raised THEN chk.exc
        ELSE Ok(<<>>, group_by(cities, "continent"))

\* Lines 352-380; continent = <<>> stands for None.
list_countries(cols, cities, continent) ==
    LET chk == require_cols(table_columns(cols), <<"country">>)
        chk2 == require_cols(table_columns(cols), <<"continent">>)
    IN  IF chk.raised THEN chk.exc
        ELSE IF continent # <<>>
             THEN IF chk2.raised THEN chk2.exc
                  ELSE Ok(continent,
                          group_by(SelectSeq(cities, LAMBDA r : r.continent = continent), "country"))
             ELSE Ok(<<>>, group_by(cities, "country"))

AggregateInputs ==
    /\ data \in CitySnapshots
    /\ \/ call = [op |-> "list_continents", args |-> <<>>, result |-> <<>>]
       \/ \E continent \in {<<>>, <<1>>, <<2>>} :
              call = [op |-> "list_countries", args |-> <<continent>>, result |-> <<>>]

\* ------------------------------------------------------- nearest-neighbour
Abs(x) == IF x < 0 THEN -x ELSE x

\* Coordinates are taken from a grid on which the haversine term is rational:
\* latitudes -60, 0, 60 and longitudes 0, 90, 180 (degrees).
LatGrid == {-60, 0, 60}
LonGrid == {0, 90, 180}

\* 4 * sin(d / 2) ^ 2 for an angle difference d on the grid.
sin2_half(d) ==
    CASE Abs(d) = 0 -> 0
      [] Abs(d) = 60 -> 1
      [] Abs(d) = 90 -> 2
      [] Abs(d) = 120 -> 3
      [] Abs(d) = 180 -> 4

\* 2 * cos(phi) for a latitude on the grid.
cos2(phi) == IF phi = 0 THEN 2 ELSE 1

\* Lines 164-171. The value is 16 * a, where a = sin(dphi/2)^2 + cos(phi1) *
\* cos(phi2) * sin(dlmb/2)^2; the code returns 2 * R * asin(sqrt(a)), which
\* increases strictly with a on [0, 1]. For the query points of the grid and
\* the coordinates of CandidateCities the floating-point results compare
\* (less, equal) exactly as these values do.
haversine_miles(lat1, lon1, lat2, lon2) ==
    4 * sin2_half(lat2 - lat1) + cos2(lat1) * cos2(lat2) * sin2_half(lon2 - lon1)

\* The mistake of replacing the best candidate on an equal distance (d <= best[0]).
nearest_scan_last(rows, lat, lon, best) ==
    LET Step1(b, r) ==
            LET d == haversine_miles(lat, lon, r.lat[1], r.lon[1])
            IN  IF b = <<>> \/ d <= b[1] THEN <<d, r>> ELSE b
        F[i \in 0..Len(rows)] == IF i = 0 THEN best ELSE Step1(F[i - 1], rows[i])
    IN  F[Len(rows)]

\* Lines 223-227: the loop over the fetched rows; best is <<>> (None) or <<d, r>>.
nearest_scan(rows, lat, lon, best) ==
    LET Step1(b, r) ==
            LET d == haversine_miles(lat, lon, r.lat[1], r.lon[1])
            IN  IF b = <<>> \/ d < b[1] THEN <<d, r>> ELSE b
        F[i \in 0..Len(rows)] == IF i = 0 THEN best ELSE Step1(F[i - 1], rows[i])
    IN  F[Len(rows)]

\* Lines 216-239
nearest_city(cities, lat, lon) ==
    LET rows == SelectSeq(cities, LAMBDA r : r.lat # NULL /\ r.lon # NULL)
        best == nearest_scan(rows, lat, lon, <<>>)
    IN  IF best = <<>> THEN NotFound("No cities found", <<>>)
        ELSE Ok(<<>>, [city_id |-> best[2].city_id, name |-> best[2].name,
                       lat |-> best[2].lat, lon |-> best[2].lon,
                       distance_mi |-> best[1]])

\* Lines 250-255: the loop over the fetched rows with the squared distance.
nearest_svg_scan(rows, svg_x, svg_y, best) ==
    LET Step1(b, r) ==
            LET dx == r.svg_x[1] - svg_x
                dy == r.svg_y[1] - svg_y
                d2 == dx * dx + dy * dy
            IN  IF b = <<>> \/ d2 < b[1] THEN <<d2, r>> ELSE b
        F[i \in 0..Len(rows)] == IF i = 0 THEN best ELSE Step1(F[i - 1], rows[i])
    IN  F[Len(rows)]

\* Lines 241-261
nearest_city_svg(cols, cities, svg_x, svg_y) ==
    LET chk == require_cols(table_columns(cols), <<"svg_x", "svg_y">>)
        rows == SelectSeq(cities, LAMBDA r : r.svg_x # NULL /\ r.svg_y # NULL)
        best == nearest_svg_scan(rows, svg_x, svg_y, <<>>)
    IN  IF chk.raised THEN chk.exc
        ELSE IF best = <<>> THEN NotFound("No cities found", <<>>)
        ELSE Ok(<<>>, [city_id |-> best[2].city_id, name |-> best[2].name,
                       svg_x |-> best[2].svg_x, svg_y |-> best[2].svg_y])

NearestInputs ==
    /\ data \in CitySnapshots
    /\ \/ \E lat \in LatGrid, lon \in LonGrid :
              call = [op |-> "nearest_city", args |-> <<lat, lon>>, result |-> <<>>]
       \/ \E svg_x \in {0, 3}, svg_y \in {0, 3} :
              call = [op |-> "nearest_city_svg", args |-> <<svg_x, svg_y>>, result |-> <<>>]

\* The inputs of a slot_index call: every triple of the calendar.
SlotInputs ==
    /\ data = NoData
    /\ \E a \in SlotDomain : call = [op |-> "slot_index", args |-> a, result |-> <<>>]

\* The inputs of a query-layer call are drawn at the start; the call applies
\* the function to them.
QueryInputs ==
    \/ SlotInputs
    \/ ForecastInputs
    \/ ListingInputs
    \/ GetCityInputs
    \/ AggregateInputs
    \/ NearestInputs

InitQuery ==
    /\ InitProgram
    /\ urlSet
    /\ db = WholeFile(Good)
    /\ track = FALSE
    /\ QueryInputs

SlotIndexCall ==
    /\ call.op = "slot_index"
    /\ call.result = <<>>
    /\ call' = [call EXCEPT !.result = <<slot_index(call.args[1], call.args[2], call.args[3])>>]
    /\ UNCHANGED <<urlSet, db, pc, attempt, tmp_zip, tmp_got, tmp_db, conn, outcome, req, nreq, seen, track, data>>

ForecastCall ==
    /\ call.op = "forecast"
    /\ call.result = <<>>
    /\ call' = [call EXCEPT !.result =
                   <<forecast(data.weather, call.args[1], call.args[2], call.args[3],
                              call.args[4], call.args[5])>>]
    /\ UNCHANGED <<urlSet, db, pc, attempt, tmp_zip, tmp_got, tmp_db, conn, outcome, req, nreq, seen, track, data>>

QueryUnchanged ==
    UNCHANGED <<urlSet, db, pc, attempt, tmp_zip, tmp_got, tmp_db, conn, outcome, req, nreq, seen, track, data>>

ListCitiesCall ==
    /\ call.op = "list_cities"
    /\ call.result = <<>>
    /\ call' = [call EXCEPT !.result =
                   <<list_cities(data.cols, data.cities, call.args[1], call.args[2], call.args[3])>>]
    /\ QueryUnchanged

CitiesByContinentCall ==
    /\ call.op = "cities_by_continent"
    /\ call.result = <<>>
    /\ call' = [call EXCEPT !.result =
                   <<cities_by_continent(data.cols, data.cities, call.args[1], call.args[2], call.args[3])>>]
    /\ QueryUnchanged

CitiesByCountryCall ==
    /\ call.op = "cities_by_country"
    /\ call.result = <<>>
    /\ call' = [call EXCEPT !.result =
                   <<cities_by_country(data.cols, data.cities, call.args[1], call.args[2], call.args[3])>>]
    /\ QueryUnchanged

GetCityCall ==
    /\ call.op = "get_city"
    /\ call.result = <<>>
    /\ call' = [call EXCEPT !.result = <<get_city(data.cols, data.cities, call.args[1])>>]
    /\ QueryUnchanged

ListContinentsCall ==
    /\ call.op = "list_continents"
    /\ call.result = <<>>
    /\ call' = [call EXCEPT !.result = <<list_continents(data.cols, data.cities)>>]
    /\ QueryUnchanged

ListCountriesCall ==
    /\ call.op = "list_countries"
    /\ call.result = <<>>
    /\ call' = [call EXCEPT !.result = <<list_countries(data.cols, data.cities, call.args[1])>>]
    /\ QueryUnchanged

NearestCityCall ==
    /\ call.op = "nearest_city"
    /\ call.result = <<>>
    /\ call' = [call EXCEPT !.result = <<nearest_city(data.cities, call.args[1], call.args[2])>>]
    /\ QueryUnchanged

NearestCitySvgCall ==
    /\ call.op = "nearest_city_svg"
    /\ call.result = <<>>
    /\ call' = [call EXCEPT !.result =
                   <<nearest_city_svg(data.cols, data.cities, call.args[1], call.args[2])>>]
    /\ QueryUnchanged

NextQuery ==
    \/ SlotIndexCall
    \/ ForecastCall
    \/ ListCitiesCall
    \/ CitiesByContinentCall
    \/ CitiesByCountryCall
    \/ GetCityCall
    \/ ListContinentsCall
    \/ ListCountriesCall
    \/ NearestCityCall
    \/ NearestCitySvgCall

SpecQuery == InitQuery /\ [][NextQuery]_vars

\* ======================================================================
\* Properties
\* ======================================================================
Done(p) == pc[p] = "done"

\* What line 73 accepts as an already provisioned snapshot.
CachedValid(f) == looks_like_sqlite(f) /\ st_size(f) > SizeFloor

\* C1: under every interleaving of concurrent connect() calls, a file at
\* DB_PATH is a completely written file, and so is every file a reader's
\* connection has open: partial downloads and extractions exist only in the
\* temporary directories.
C1_NoPartialAtCanonical ==
    /\ db.exists => Complete(db)
    /\ \A p \in Procs : conn[p].exists => Complete(conn[p])

\* C1 witness: one request is half-way through an extraction while a file is
\* at DB_PATH and another request holds an open connection.
C1_Witness ==
    \E p, q \in Procs :
        /\ p # q
        /\ tmp_db[p].exists /\ tmp_db[p].n > 0 /\ ~Complete(tmp_db[p])
        /\ db.exists
        /\ conn[q].exists

InProvisioning(p) == pc[p] \in {"dlGet", "dlWrite", "exCopy"}

\* C2 (as claimed): at most one request is inside the download / extract /
\* replace section of ensure_db_present() at any time.
C2_SingleFlight == Cardinality({p \in Procs : InProvisioning(p)}) <= 1

\* C3: a connect() call that starts with a file at DB_PATH failing the header
\* check, with a source configured and the remote serving a valid archive,
\* ends with a connection to the new snapshot after one ensure_db_present(),
\* exactly one download and two changes of DB_PATH (the unlink, the replace).
C3_CorruptionRecovery ==
    \A p \in Procs :
        (/\ Done(p)
         /\ urlSet
         /\ req[p].start.exists
         /\ ~looks_like_sqlite(req[p].start)
         /\ req[p].allValid)
        => /\ outcome[p] = "conn"
           /\ req[p].ngets = 1
           /\ req[p].nens = 1
           /\ req[p].nmut = 2
           /\ conn[p] = WholeFile(Good)
           /\ db = WholeFile(Good)

\* C3 witness: a call that found garbage at DB_PATH ended with a connection after one download.
C3_Witness ==
    \E p \in Procs :
        /\ Done(p)
        /\ req[p].start = WholeFile(Garbage)
        /\ req[p].allValid
        /\ outcome[p] = "conn"
        /\ req[p].ngets = 1

\* C4: one connect() call runs ensure_db_present() at most twice and unlinks
\* DB_PATH reactively at most once; the second ensure_db_present() is the
\* retry after a corruption error, which happens exactly once; a corruption
\* error of the retry's open is the call's result; and every call that has
\* started ends, with a connection or an error.
C4_Bounded ==
    \A p \in Procs :
        /\ req[p].nens <= 2
        /\ req[p].nheal <= 1
        /\ (attempt[p] = 1 /\ pc[p] # "idle") => req[p].nens <= 1
        /\ (attempt[p] = 2 /\ pc[p] # "ensure") => req[p].nens = 2
        /\ (Done(p) /\ outcome[p] = "SnapshotUnreadable") => req[p].nens = 2
        /\ Done(p) => outcome[p] # "none"

\* C4: bounded self-heal.  C4_Bounded holds in every state of every connect()
\* call (at most two ensure_db_present(), at most one reactive unlink, one
\* retry only, the retry's failure propagates), and every call that has
\* started ends with a connection or an error.
C4_BoundedSelfHeal ==
    /\ []C4_Bounded
    /\ \A p \in Procs : (pc[p] # "idle") ~> Done(p)

\* C4 witness: the retry's open raised a corruption error too, and the call ended with it.
C4_Witness ==
    \E p \in Procs :
        /\ Done(p)
        /\ outcome[p] = "SnapshotUnreadable"
        /\ req[p].nens = 2
        /\ req[p].nheal = 1
        /\ req[p].ngets = 2

\* C5: an ensure_db_present() that starts with a valid cached snapshot (header
\* and size floor) returns without a network call and with DB_PATH unchanged.
C5_Idempotent ==
    \A p \in Procs :
        (pc[p] \in {"cachedExists", "cachedLook", "cachedStat", "dlGet", "dlWrite", "exCopy", "validate", "open"}
         /\ CachedValid(req[p].ensStart))
        => /\ pc[p] \notin {"dlGet", "dlWrite", "exCopy", "validate"}
           /\ req[p].ensGets = 0
           /\ req[p].nmut = 0
           /\ db = req[p].ensStart

\* C5 witness: a second call, after an earlier request was handed a
\* connection, returns from ensure_db_present() on the cached snapshot.
C5_Witness ==
    \E p \in Procs :
        /\ "conn" \in seen
        /\ pc[p] = "open"
        /\ CachedValid(req[p].ensStart)
        /\ req[p].ensGets = 0

\* C6 (as claimed): whenever ensure_db_present() returns without error, the
\* file at DB_PATH starts with the magic prefix and exceeds the size floor.
C6_ReturnImpliesValid ==
    \A p \in Procs :
        pc[p] = "open" => (looks_like_sqlite(db) /\ st_size(db) > SizeFloor)

\* C7: with no source URL configured, connect() ends with the configuration
\* error after one ensure_db_present(), whatever is at DB_PATH: no step of the
\* fetch is reached, no GET is issued, DB_PATH is not changed, no retry.
C7_ConfigErrorFirst ==
    ~urlSet =>
        \A p \in Procs :
            /\ pc[p] \in {"idle", "ensure", "done"}
            /\ req[p].ngets = 0
            /\ req[p].nmut = 0
            /\ req[p].nens <= 1
            /\ Done(p) => (outcome[p] = "ConfigError" /\ db = req[p].start /\ req[p].nens = 1)

\* C7 witness: a call with no source URL ended with the configuration error, garbage still at DB_PATH.
C7_Witness ==
    \E p \in Procs :
        /\ ~urlSet
        /\ Done(p)
        /\ outcome[p] = "ConfigError"
        /\ req[p].start = WholeFile(Garbage)
        /\ db = WholeFile(Garbage)

C9_NoStickyFailure ==
    \A p \in Procs :
        (/\ seen \cap ProvisioningFailures # {}
         /\ Done(p)
         /\ req[p].allValid)
        => /\ outcome[p] = "conn"
           /\ ~CachedValid(req[p].start) => req[p].ngets >= 1

\* C9 witness: after a request failed on an invalid snapshot, the next call downloaded and got a connection.
C9_Witness ==
    \E p \in Procs :
        /\ "InvalidSnapshotFormat" \in seen
        /\ Done(p)
        /\ req[p].start = WholeFile(Garbage)
        /\ req[p].ngets = 1
        /\ outcome[p] = "conn"

LexLess(a, b) ==
    \/ a[1] < b[1]
    \/ a[1] = b[1] /\ a[2] < b[2]
    \/ a[1] = b[1] /\ a[2] = b[2] /\ a[3] < b[3]

SlotResult == call.result[1]

\* C10: over month 1..12, day 1..30, tod 0..2, slot_index is strictly
\* increasing in the lexicographic order of (month, day, tod), injective, and
\* its values are the dense range 0..1079: the index of a triple is the number
\* of triples before it.  slot_index(1,1,0) = 0, slot_index(1,2,0) = 3,
\* slot_index(2,1,0) = 90.
C10_SlotIndex ==
    (call.op = "slot_index" /\ call.result # <<>>) =>
        /\ SlotResult \in 0..1079
        /\ \A b \in SlotDomain :
            /\ LexLess(call.args, b) => SlotResult < slot_index(b[1], b[2], b[3])
            /\ b # call.args => SlotResult # slot_index(b[1], b[2], b[3])
        /\ SlotResult = Cardinality({b \in SlotDomain : LexLess(b, call.args)})
        /\ call.args = <<1, 1, 0>> => SlotResult = 0
        /\ call.args = <<1, 2, 0>> => SlotResult = 3
        /\ call.args = <<2, 1, 0>> => SlotResult = 90

\* C10 witness: the last triple of the domain has been given index 1079.
C10_Witness ==
    /\ call.op = "slot_index"
    /\ call.args = <<12, 30, 2>>
    /\ call.result = <<1079>>

ForecastResult == call.result[1]

\* C11 -- For the city whose weather rows are dense, forecast returns exactly the
\* rows of that city whose slot index lies in [slot_index(month, day, tod),
\* slot_index(month, day, tod) + days * 3), in strictly ascending slot-index
\* order (so no duplicates); a range past the stored indices yields only the
\* rows that exist, never rows from the start of the year; days <= 0 yields
\* the empty list.
C11_ForecastWindow ==
    (call.op = "forecast" /\ call.result # <<>> /\ call.args[1] = 1) =>
        LET start == ((call.args[2] - 1) * 30 + (call.args[3] - 1)) * 3 + call.args[4]
            end == start + call.args[5] * 3
            wanted == {s \in 0..MaxSlot : start <= s /\ s < end}
            got == ForecastResult
        IN  /\ Len(got) = Cardinality(wanted)
            /\ {got[i].slot_index : i \in 1..Len(got)} = wanted
            /\ \A i \in 1..Len(got) : got[i].city_id = 1
            /\ \A i \in 1..Len(got) : \E j \in 1..Len(data.weather) : data.weather[j] = got[i]
            /\ \A i \in 1..Len(got), j \in 1..Len(got) :
                   i < j => got[i].slot_index < got[j].slot_index
            /\ (call.args[5] <= 0 => got = <<>>)
            /\ (start > MaxSlot => got = <<>>)

\* A two-day forecast from the second slot of the year, answered from a table
\* stored in descending order: the rows come back ascending from slot 1 and
\* stop at the last stored slot.
C11_Witness ==
    /\ call.op = "forecast" /\ call.result # <<>>
    /\ call.args = <<1, 1, 1, 1, 2>>
    /\ data.weather[2] = WRow(1, MaxSlot)
    /\ Len(ForecastResult) = Min(MaxSlot, 6)
    /\ ForecastResult[1] = WRow(1, 1)

ListingOps == {"list_cities", "cities_by_continent", "cities_by_country"}

Answer == call.result[1]

\* C12 -- In every listing operation (list_cities, cities_by_continent,
\* cities_by_country) the page size given to the query is max(1, min(limit,
\* 5000)) and the offset is max(0, offset): the page size is always in 1..5000
\* and the offset is never negative, the page holds at most that many rows,
\* limit = 100000 gives 5000, limit = 0 gives 1 and offset = -5 gives 0.
C12_PageClamps ==
    (call.op \in ListingOps /\ call.result # <<>> /\ Answer.status = 200) =>
        LET limit == call.args[2]
            offset == call.args[3]
            used == Answer.sql[1]
            l == used[Len(used) - 1]
            o == used[Len(used)]
        IN  /\ Len(Answer.sql) = 1
            /\ l \in 1..5000
            /\ o >= 0
            /\ l = (IF limit < 1 THEN 1 ELSE IF limit > 5000 THEN 5000 ELSE limit)
            /\ o = (IF offset < 0 THEN 0 ELSE offset)
            /\ Len(Answer.body) <= l
            /\ (limit = 100000 => l = 5000)
            /\ (limit = 0 => l = 1)
            /\ (offset = -5 => o = 0)

\* A continent listing asked for 100000 rows from offset -5 is answered with
\* a page of 5000 from offset 0, holding the continent's two cities.
C12_Witness ==
    /\ call.op = "cities_by_continent" /\ call.result # <<>>
    /\ call.args = <<1, 100000, -5>>
    /\ Answer.status = 200
    /\ Answer.sql = << <<5000, 0>> >>
    /\ Len(Answer.body) = 2

\* C13 -- On a snapshot whose cities table has the columns get_city checks,
\* get_city answers with the City record of the given id when the table holds
\* it and with NotFound (404) when it does not; there is no other outcome.
C13_CityOrNotFound ==
    (call.op = "get_city" /\ call.result # <<>> /\ OptionalCols \subseteq data.cols) =>
        LET held == {i \in 1..Len(data.cities) : data.cities[i].city_id = call.args[1]}
        IN  /\ held # {} =>
                   /\ Answer.status = 200
                   /\ \E i \in held : Answer.body = data.cities[i]
            /\ held = {} => Answer.status = 404

\* The columns each schema-checking operation names in its require_cols calls.
RequiredCols ==
    CASE call.op = "list_continents" -> {"continent"}
      [] call.op = "list_countries" ->
             IF call.args[1] # <<>> THEN {"country", "continent"} ELSE {"country"}
      [] call.op = "cities_by_continent" -> {"continent", "svg_x", "svg_y"}
      [] call.op = "cities_by_country" -> {"country", "svg_x", "svg_y"}
      [] call.op = "get_city" -> {"continent", "country", "svg_x", "svg_y"}
      [] call.op = "nearest_city_svg" -> {"svg_x", "svg_y"}
      [] OTHER -> {}

SchemaOps ==
    {"list_continents", "list_countries", "cities_by_continent", "cities_by_country",
     "get_city", "nearest_city_svg"}

\* The columns of the require_cols call that raises: list_countries with a
\* continent filter checks country in a first call and continent in a second.
FailedCheckCols ==
    IF call.op = "list_countries" /\ call.args[1] # <<>>
    THEN IF "country" \notin data.cols THEN {"country"} ELSE {"continent"}
    ELSE RequiredCols

ListedMissing == {Answer.missing[i] : i \in 1..Len(Answer.missing)}

\* C14 as stated -- When the cities table lacks a column an operation requires,
\* the operation fails with 501 and the detail lists exactly the required
\* columns that are missing; no data query runs and no partial result is
\* returned; when every required column is present no 501 is raised.
C14_DetailListsAllMissing ==
    (call.op \in SchemaOps /\ call.result # <<>>) =>
        LET missing == RequiredCols \ data.cols
        IN  /\ missing # {} =>
                   /\ Answer.status = 501
                   /\ ListedMissing = missing
                   /\ Answer.sql = <<>>
                   /\ Answer.body = <<>>
            /\ missing = {} => Answer.status # 501

\* C14 -- When the cities table lacks a column an operation requires, the
\* operation fails with 501 and the detail lists, once each, exactly the
\* missing columns among those named in the require_cols call that raised
\* (every missing required column, except that list_countries with a continent
\* filter lists only country when country and continent are both absent),
\* together with the columns present; no data query runs and no partial
\* result is returned; when every required column is present no 501 is raised.
C14_DetailListsMissingOfFailedCheck ==
    (call.op \in SchemaOps /\ call.result # <<>>) =>
        LET missing == RequiredCols \ data.cols
        IN  /\ missing # {} =>
                   /\ Answer.status = 501
                   /\ ListedMissing = FailedCheckCols \ data.cols
                   /\ Len(Answer.missing) = Cardinality(ListedMissing)
                   /\ Answer.present = data.cols
                   /\ Answer.sql = <<>>
                   /\ Answer.body = <<>>
            /\ missing = {} => Answer.status # 501

\* The country aggregate filtered by continent, on a snapshot with neither
\* column, fails with 501 naming country alone.
C14_Witness ==
    /\ call.op = "list_countries" /\ call.result # <<>>
    /\ call.args[1] # <<>>
    /\ "country" \notin data.cols /\ "continent" \notin data.cols
    /\ Answer.status = 501
    /\ Answer.missing = <<"country">>
    /\ Answer.sql = <<>>

\* C17 -- nearest_city and nearest_city_svg scan the cities with non-null
\* coordinates in storage order and answer with a city at minimal distance,
\* the first encountered among those at that distance; with no such city
\* they answer NotFound (404); nearest_city_svg fails with 501 before any data
\* query when svg_x or svg_y is not a column of the table.
C17_NearestFirstMinimal ==
    /\ (call.op = "nearest_city" /\ call.result # <<>>) =>
           LET cities == data.cities
               E == {i \in 1..Len(cities) : cities[i].lat # NULL /\ cities[i].lon # NULL}
               D(i) == haversine_miles(call.args[1], call.args[2],
                                       cities[i].lat[1], cities[i].lon[1])
           IN  /\ E = {} => Answer.status = 404
               /\ E # {} =>
                      /\ Answer.status = 200
                      /\ \E i \in E :
                             /\ Answer.body.city_id = cities[i].city_id
                             /\ Answer.body.distance_mi = D(i)
                             /\ \A j \in E : D(i) <= D(j)
                             /\ \A j \in E : j < i => D(j) > D(i)
    /\ (call.op = "nearest_city_svg" /\ call.result # <<>>) =>
           LET cities == data.cities
               E == {i \in 1..Len(cities) : cities[i].svg_x # NULL /\ cities[i].svg_y # NULL}
               D(i) == (cities[i].svg_x[1] - call.args[1]) * (cities[i].svg_x[1] - call.args[1])
                       + (cities[i].svg_y[1] - call.args[2]) * (cities[i].svg_y[1] - call.args[2])
           IN  IF ~({"svg_x", "svg_y"} \subseteq data.cols)
               THEN Answer.status = 501 /\ Answer.sql = <<>> /\ Answer.body = <<>>
               ELSE /\ E = {} => Answer.status = 404
                    /\ E # {} =>
                           /\ Answer.status = 200
                           /\ \E i \in E :
                                  /\ Answer.body.city_id = cities[i].city_id
                                  /\ \A j \in E : D(i) <= D(j)
                                  /\ \A j \in E : j < i => D(j) > D(i)

\* From the point (0, 90) the cities at (-60, 90) and (60, 90) are equally
\* near and nearer than the city stored first; the answer is the one of the
\* two that is stored before the other.
C17_Witness ==
    /\ call.op = "nearest_city" /\ call.result # <<>>
    /\ call.args = <<0, 90>>
    /\ data.cities = <<CityA, CityC, CityB>>
    /\ Answer.status = 200
    /\ Answer.body.city_id = CityC.city_id

\* A header-valid file whose size does not exceed the floor.
BelowFloor(f) == looks_like_sqlite(f) /\ st_size(f) <= SizeFloor

\* C15 -- ensure_db_present() accepts the cached file without a network call
\* only if its header matches and its size exceeds 1,000,000 bytes. A
\* header-valid file at or below the floor is not deleted by the corrupt-cache
\* step; it triggers a fetch and stays at DB_PATH until the rename replaces
\* it, and stays unchanged when the fetch fails.
C15_FloorGatesCache ==
    \A p \in Procs :
        /\ (pc[p] = "open" /\ req[p].ensGets = 0) =>
               /\ looks_like_sqlite(req[p].ensStart)
               /\ st_size(req[p].ensStart) > SizeFloor
        /\ (req[p].nens >= 1 /\ BelowFloor(req[p].ensStart)) =>
               /\ pc[p] # "corruptUnlink"
               /\ pc[p] \in {"corruptExists", "corruptLook", "cachedExists", "cachedLook",
                             "cachedStat", "dlGet", "dlWrite", "exCopy"} =>
                      /\ db = req[p].ensStart
                      /\ req[p].nmut = 0
               /\ pc[p] \in {"validate", "open"} =>
                      /\ req[p].ensGets = 1
                      /\ req[p].nmut = 1
                      /\ Complete(db)
               /\ (pc[p] = "done" /\ outcome[p] \in {"FetchFailed", "BadArchive", "NoSnapshotInArchive"}) =>
                      db = req[p].ensStart

\* A cached snapshot of exactly 1,000,000 bytes has been replaced by the
\* snapshot of a fetched archive.
C15_Witness ==
    \E p \in Procs :
        /\ req[p].ensStart = WholeFile(Small)
        /\ pc[p] = "validate"
        /\ req[p].ensGets = 1
        /\ db = WholeFile(Good)

\* The first member, in archive order, whose lower-cased name ends in ".db".
HasSnapshotMember(r) ==
    \E i \in 1..Len(r.members) : endswith(lower(r.members[i].name), DbSuffix)

FirstSnapshotMember(r) ==
    r.members[CHOOSE i \in 1..Len(r.members) :
                  /\ endswith(lower(r.members[i].name), DbSuffix)
                  /\ \A j \in 1..(i - 1) : ~endswith(lower(r.members[j].name), DbSuffix)]

C18_HealOnlyOnCorruption ==
    [][\A p \in Procs :
          /\ (pc'[p] = "healExists" /\ pc[p] # "healExists") =>
                 /\ pc[p] = "open"
                 /\ sqlite_open(db) = "corrupt"
          /\ (pc[p] = "open" /\ pc'[p] # "open" /\ sqlite_open(db) = "cantopen") =>
                 /\ pc'[p] = "done"
                 /\ outcome'[p] = "OpenError"
                 /\ db' = db
                 /\ attempt'[p] = attempt[p]
                 /\ conn'[p] = NoFile]_vars

\* A request whose open failed because the file could not be opened has ended
\* with that error on its first attempt.
C18_Witness ==
    \E p \in Procs :
        /\ pc[p] = "done"
        /\ outcome[p] = "OpenError"
        /\ attempt[p] = 1

\* C19 -- Provisioning that fails leaves DB_PATH as it was after the
\* corrupt-cache check: while the download and the extraction run, and when
\* the download fails, the archive cannot be opened or holds no snapshot
\* member, DB_PATH holds the file it held when the fetch began (or is still
\* absent); only the completed rename changes it.
C19_FailedProvisioningKeepsCanonical ==
    \A p \in Procs :
        LET failed == /\ pc[p] = "done"
                      /\ req[p].ensGets >= 1
                      /\ outcome[p] \in {"FetchFailed", "BadArchive", "NoSnapshotInArchive"}
        IN  (pc[p] \in {"dlWrite", "exCopy"} \/ failed) =>
                /\ db = req[p].fetchStart
                /\ req[p].fetchStart =
                       (IF looks_like_sqlite(req[p].ensStart) THEN req[p].ensStart ELSE NoFile)

\* A fetch that brought an archive without a snapshot member has failed, and
\* the undersized snapshot that was cached is still at DB_PATH.
C19_Witness ==
    \E p \in Procs :
        /\ pc[p] = "done"
        /\ outcome[p] = "NoSnapshotInArchive"
        /\ req[p].fetchStart = WholeFile(Small)
        /\ db = WholeFile(Small)

\* C20 -- Under every interleaving, the corrupt-cache step of
\* ensure_db_present() never deletes a file that passes the header check: the
\* file a request unlinks is the file it found invalid.
C20_UnlinksOnlyInvalid ==
    [][\A p \in Procs :
          (pc[p] = "corruptUnlink" /\ pc'[p] # "corruptUnlink" /\ db.exists) =>
              ~looks_like_sqlite(db)]_vars

====
